---- MODULE Spec2Model ----
(***************************************************************************)
(* chaos-middleware: the request interceptor chaosMiddleware(options).     *)
(*                                                                         *)
(* Two revisions of the middleware are in the repository:                  *)
(*   - the one with error / methods / activationKeyword (called "full"     *)
(*     below), and                                                         *)
(*   - src/index.ts, which knows latency and errorRate only ("basic").     *)
(* A request is handled by one of them.  The synchronous part of the       *)
(* handler (up to `await delay(ms)` or a return) is one action; the        *)
(* continuation after the timer fires is another.                          *)
(*                                                                         *)
(* JavaScript values are tagged records [t, n, s], so that strict          *)
(* equality, truthiness, `||` and `??` are modelled by what they do.       *)
(* Math.random() is a draw k/RandDen, k in 0..RandDen-1; errorRate is a    *)
(* numerator over the same denominator.                                    *)
(***************************************************************************)
EXTENDS Integers, Sequences, FiniteSets, TLC

\* ------------------------------------------------------------------ bounds
RandDen == 2      \* resolution of Math.random(): draws are k / RandDen
MaxMs   == 2      \* largest latency (ms) configured

\* ------------------------------------------------------- JavaScript values
Undefined == [t |-> "undefined", n |-> 0, s |-> ""]
Num(n)    == [t |-> "number",    n |-> n, s |-> ""]
Str(s)    == [t |-> "string",    n |-> 0, s |-> s]
Obj(id)   == [t |-> "object",    n |-> 0, s |-> id]
Arr1(s)   == [t |-> "array",     n |-> 1, s |-> s]   \* the array [s]

\* ToBoolean(v): undefined, 0, "" and false are falsy
Truthy(v) ==
    CASE v.t = "undefined" -> FALSE
      [] v.t = "number"    -> v.n # 0
      [] v.t = "string"    -> v.s # ""
      [] v.t = "boolean"   -> v.n = 1
      [] OTHER             -> TRUE

\* a === b
StrictEquals(a, b) == a = b

\* a ?? b
Nullish(a, b) == IF a.t = "undefined" THEN b ELSE a

\* a || b
OrElse(a, b) == IF Truthy(a) THEN a ELSE b

\* ------------------------------------------------- method names (by char)
\* A method name is a sequence of characters, so that toUpperCase is
\* computed character by character.
UpperOf(c) ==
    CASE c = "g" -> "G" [] c = "e" -> "E" [] c = "t" -> "T"
      [] c = "p" -> "P" [] c = "u" -> "U"
      [] OTHER   -> c

toUpperCase(cs) == [i \in 1..Len(cs) |-> UpperOf(cs[i])]

NoMethod   == [t |-> "undefined", cs |-> <<>>]
Method(cs) == [t |-> "string",    cs |-> cs]

NoMethods     == [t |-> "undefined", items |-> <<>>]
Methods(list) == [t |-> "array",     items |-> list]

\* --------------------------------------------------------------- latency
NoLatency        == [t |-> "undefined", ms |-> 0,  min |-> 0, max |-> 0]
FixedLatency(ms) == [t |-> "number",    ms |-> ms, min |-> 0, max |-> 0]
RangeLatency(a, b) == [t |-> "array",   ms |-> 0,  min |-> a, max |-> b]

\* ----------------------------------------------------------------- error
\* options.error: undefined, or { status, body } (either may be missing)
NoError            == [t |-> "undefined", status |-> Undefined, body |-> Undefined]
ChaosError(st, bd) == [t |-> "object",    status |-> st,        body |-> bd]

\* ----------------------------------------------------------------- query
\* req.query: undefined, or an object given as a set of <<name, value>>
NoQuery      == [t |-> "undefined", props |-> {}]
Query(props) == [t |-> "object",    props |-> props]

\* q[name]
Get(q, name) ==
    IF \E p \in q.props : p[1] = name
    THEN (CHOOSE p \in q.props : p[1] = name)[2]
    ELSE Undefined

\* ------------------------------------------------------ the input domains
\* process.env.NODE_ENV
NodeEnvs == {Str("development"), Str("production")}

\* Math.random() returns k / RandDen
Draws == 0 .. (RandDen - 1)

LatencyOptions ==
    {NoLatency, FixedLatency(0), FixedLatency(MaxMs), RangeLatency(MaxMs - 1, MaxMs)}

\* errorRate is e / RandDen: omitted, 0, 1/RandDen, 1
ErrorRateOptions == {Undefined, Num(0), Num(1), Num(RandDen)}

ErrorOptions ==
    {NoError,
     ChaosError(Num(401), Obj("expired")),
     ChaosError(Num(503), Undefined),
     ChaosError(Undefined, Obj("expired")),
     ChaosError(Num(0), Undefined)}

MethodsOptions ==
    {NoMethods, Methods(<<>>),
     Methods(<< <<"p","u","t">>, <<"G","e","t">> >>)}

KeywordOptions == {Undefined, Str(""), Str("chaos")}

\* ChaosOptions of the full revision
FullOptions ==
    [latency : LatencyOptions, errorRate : ErrorRateOptions,
     error : ErrorOptions, methods : MethodsOptions,
     activationKeyword : KeywordOptions]

\* ChaosOptions of src/index.ts: latency and errorRate only
BasicOptions ==
    [latency : LatencyOptions, errorRate : ErrorRateOptions,
     error : {NoError}, methods : {NoMethods},
     activationKeyword : {Undefined}]

Request(m, q) == [method |-> m, query |-> q]

\* the requests the host framework delivers
Requests ==
    {Request(NoMethod, NoQuery),
     Request(Method(<<"g","e","t">>), Query({<<"chaos", Str("true")>>})),
     Request(Method(<<"P","U","T">>), Query({<<"chaos", Str("false")>>})),
     Request(Method(<<"G","E","T">>), Query({<<"chaos", Arr1("true")>>})),
     Request(Method(<<"P","O","S","T">>), Query({<<"chaos", Str("true")>>})),
     Request(Method(<<"g","e","t">>), Query({<<"other", Str("true")>>}))}

\* The requests in flight.  Requests share no state (the handler keeps
\* none), so a pair shows every way two of them interleave.
ReqIds == {1, 2}

\* ------------------------------------------------------------------ state
VARIABLES
    revision,   \* which chaosMiddleware was constructed: "full" or "basic"
    options,    \* the options captured by the closure
    nodeEnv,    \* process.env.NODE_ENV
    reqs        \* per request: the handler's position and what it has done

vars == <<revision, options, nodeEnv, reqs>>

\* A request before the middleware has been invoked on it.
Idle ==
    [pc        |-> "idle",                  \* "idle", "delaying", "done"
     arrived   |-> Request(NoMethod, NoQuery), \* the request as delivered
     req       |-> Request(NoMethod, NoQuery), \* the request object now
     draw      |-> -1,                      \* Math.random() of the error test
     res       |-> <<>>,                    \* calls made on res, in order
     nextCalls |-> 0,                       \* calls of next()
     timers    |-> 0,                       \* setTimeout calls
     delayMs   |-> -1,                      \* ms given to setTimeout
     fired     |-> 0]                       \* timers that have fired

\* ------------------------------------------------------- handler effects
\* return next()
CallNext(q) == [q EXCEPT !.nextCalls = @ + 1, !.pc = "done"]

\* res.status(code)
ResStatus(q, code) == [q EXCEPT !.res = Append(@, [op |-> "status", arg |-> code])]
\* res.json(body)
ResJson(q, body) == [q EXCEPT !.res = Append(@, [op |-> "json", arg |-> body])]
\* res.end()
ResEnd(q) == [q EXCEPT !.res = Append(@, [op |-> "end", arg |-> Undefined])]

\* await delay(ms): new Promise(resolve => setTimeout(resolve, ms))
delay(q, ms) ==
    [q EXCEPT !.timers = @ + 1, !.delayMs = ms, !.pc = "delaying"]

\* the handler after `await delay(ms)`: return next()
Resume(q) == CallNext([q EXCEPT !.fired = @ + 1])

\* ------------------------------------------------------ handler decisions
\* (variant: the environment is compared with 'prod')
IsProduction_prod(env) == StrictEquals(env, Str("prod"))

\* process.env.NODE_ENV === 'production'
IsProduction(env) == StrictEquals(env, Str("production"))

\* (variant: loose inequality, under which ['true'] != 'true' is false)
NotActivated_loose(keyword, query) ==
    \/ query.t = "undefined"
    \/ ~(Get(query, keyword.s).s = "true")

\* !req.query || req.query[keyword] !== 'true'
NotActivated(keyword, query) ==
    \/ query.t = "undefined"
    \/ ~StrictEquals(Get(query, keyword.s), Str("true"))

\* options.methods && options.methods.length > 0
MethodsGiven(methods) == methods.t = "array" /\ Len(methods.items) > 0

\* req.method?.toUpperCase()
ReqMethodUpper(method) ==
    IF method.t = "undefined" THEN NoMethod ELSE Method(toUpperCase(method.cs))

\* options.methods.map(m => m.toUpperCase())
AllowedMethods(methods) ==
    [i \in 1..Len(methods.items) |-> toUpperCase(methods.items[i])]

\* (variant: the request method is compared as it came, not upper-cased)
MethodFiltered_asis(methods, method) ==
    LET allowed == AllowedMethods(methods)
    IN  \/ method.t = "undefined"
        \/ Len(method.cs) = 0
        \/ ~(\E i \in 1..Len(allowed) : allowed[i] = method.cs)

\* !reqMethod || !allowedMethods.includes(reqMethod)
MethodFiltered(methods, method) ==
    LET reqMethod == ReqMethodUpper(method)
        allowed   == AllowedMethods(methods)
    IN  \/ reqMethod.t = "undefined"
        \/ Len(reqMethod.cs) = 0
        \/ ~(\E i \in 1..Len(allowed) : allowed[i] = reqMethod.cs)

\* (variant: <= in place of <)
ErrorDrawn_le(r, errorRate) == r <= Nullish(errorRate, Num(0)).n

\* Math.random() < errorRate, with errorRate = options.errorRate ?? 0
ErrorDrawn(r, errorRate) == r < Nullish(errorRate, Num(0)).n

\* (variant: the status is always 500, as in src/index.ts)
ErrorStatus_500(error) == Num(500)

\* customError?.status || 500
ErrorStatus(error) == OrElse(error.status, Num(500))

\* customError?.body
ErrorBody(error) == error.body

\* res.status(status); if(body) res.json(body) else res.end(); return
SendError(q, error) ==
    LET q1 == ResStatus(q, ErrorStatus(error))
        q2 == IF Truthy(ErrorBody(error)) THEN ResJson(q1, ErrorBody(error))
                                          ELSE ResEnd(q1)
    IN  [q2 EXCEPT !.pc = "done"]

\* if(options.latency)
LatencyGiven(latency) ==
    CASE latency.t = "undefined" -> FALSE
      [] latency.t = "number"    -> latency.ms # 0
      [] OTHER                   -> TRUE

\* (variant: `+ min` forgotten)
LatencyMs_nomin(latency, r) ==
    IF latency.t = "array"
    THEN (r * (latency.max - latency.min + 1)) \div RandDen
    ELSE latency.ms

\* Math.floor(Math.random() * (max - min + 1) + min), or the fixed number
LatencyMs(latency, r) ==
    IF latency.t = "array"
    THEN (r * (latency.max - latency.min + 1) + latency.min * RandDen) \div RandDen
    ELSE latency.ms

\* (variant: delay(ms) is not awaited, so next() is called at once)
InjectLatency_noawait(q, latency, r) ==
    IF LatencyGiven(latency)
    THEN [CallNext(q) EXCEPT !.timers = @ + 1, !.delayMs = LatencyMs(latency, r)]
    ELSE CallNext(q)

\* if(options.latency) { ...; await delay(latency_ms) } return next()
InjectLatency(q, latency, r) ==
    IF LatencyGiven(latency) THEN delay(q, LatencyMs(latency, r)) ELSE CallNext(q)

\* (variant: the latency step runs before the error test, so an error
\* response is sent on a request that was also delayed)
chaosMiddleware_delayfirst(o, env, q, r1, r2) ==
    IF IsProduction(env) THEN CallNext(q)
    ELSE IF Truthy(o.activationKeyword) /\ NotActivated(o.activationKeyword, q.req.query)
    THEN CallNext(q)
    ELSE IF MethodsGiven(o.methods) /\ MethodFiltered(o.methods, q.req.method)
    THEN CallNext(q)
    ELSE LET q1 == [q EXCEPT !.draw = r1]
             q2 == IF LatencyGiven(o.latency)
                   THEN [q1 EXCEPT !.timers = @ + 1, !.fired = @ + 1,
                                   !.delayMs = LatencyMs(o.latency, r2)]
                   ELSE q1
         IN  IF ErrorDrawn(r1, o.errorRate) THEN SendError(q2, o.error)
             ELSE InjectLatency(q1, o.latency, r2)

\* (variant: `return` forgotten in the method filter, so the handler calls
\* next() and goes on)
chaosMiddleware_noreturn(o, env, q, r1, r2) ==
    IF IsProduction(env) THEN CallNext(q)
    ELSE IF Truthy(o.activationKeyword) /\ NotActivated(o.activationKeyword, q.req.query)
    THEN CallNext(q)
    ELSE LET q0 == IF MethodsGiven(o.methods) /\ MethodFiltered(o.methods, q.req.method)
                   THEN CallNext(q) ELSE q
             q1 == [q0 EXCEPT !.draw = r1]
         IN  IF ErrorDrawn(r1, o.errorRate) THEN SendError(q1, o.error)
             ELSE InjectLatency(q1, o.latency, r2)

\* The synchronous part of the full handler on request q, with r1 and r2 the
\* values Math.random() returns if it is called.
chaosMiddleware(o, env, q, r1, r2) ==
    IF IsProduction(env) THEN CallNext(q)
    ELSE IF Truthy(o.activationKeyword) /\ NotActivated(o.activationKeyword, q.req.query)
    THEN CallNext(q)
    ELSE IF MethodsGiven(o.methods) /\ MethodFiltered(o.methods, q.req.method)
    THEN CallNext(q)
    ELSE LET q1 == [q EXCEPT !.draw = r1] IN
         IF ErrorDrawn(r1, o.errorRate) THEN SendError(q1, o.error)
         ELSE InjectLatency(q1, o.latency, r2)

\* The synchronous part of the handler of src/index.ts.
chaosMiddlewareBasic(o, env, q, r1, r2) ==
    IF IsProduction(env) THEN CallNext(q)
    ELSE LET q1 == [q EXCEPT !.draw = r1] IN
         IF ErrorDrawn(r1, o.errorRate)
         THEN [ResEnd(ResStatus(q1, Num(500))) EXCEPT !.pc = "done"]
         ELSE InjectLatency(q1, o.latency, r2)

\* ---------------------------------------------------------------- actions
Init ==
    /\ revision \in {"full", "basic"}
    /\ options \in (IF revision = "full" THEN FullOptions ELSE BasicOptions)
    /\ nodeEnv \in NodeEnvs
    /\ reqs = [i \in ReqIds |-> Idle]

Arrive(q, rq) == [q EXCEPT !.arrived = rq, !.req = rq]

\* requests are numbered in the order in which they arrive
IsNext(i) ==
    /\ reqs[i].pc = "idle"
    /\ \A j \in ReqIds : j < i => reqs[j].pc # "idle"

\* the framework invokes the full middleware on a new request
Invoke(i) ==
    /\ revision = "full"
    /\ IsNext(i)
    /\ \E rq \in Requests, r1 \in Draws, r2 \in Draws :
         reqs' = [reqs EXCEPT ![i] =
                     chaosMiddleware(options, nodeEnv, Arrive(@, rq), r1, r2)]
    /\ UNCHANGED <<revision, options, nodeEnv>>

\* the framework invokes the middleware of src/index.ts on a new request
InvokeBasic(i) ==
    /\ revision = "basic"
    /\ IsNext(i)
    /\ \E rq \in Requests, r1 \in Draws, r2 \in Draws :
         reqs' = [reqs EXCEPT ![i] =
                     chaosMiddlewareBasic(options, nodeEnv, Arrive(@, rq), r1, r2)]
    /\ UNCHANGED <<revision, options, nodeEnv>>

\* (variant: the handler ends after the delay without calling next())
TimerFires_nonext(i) ==
    /\ reqs[i].pc = "delaying"
    /\ reqs' = [reqs EXCEPT ![i] = [@ EXCEPT !.fired = @ + 1, !.pc = "done"]]
    /\ UNCHANGED <<revision, options, nodeEnv>>

\* the timer of delay(ms) fires; the handler resumes and returns next()
TimerFires(i) ==
    /\ reqs[i].pc = "delaying"
    /\ reqs' = [reqs EXCEPT ![i] = Resume(@)]
    /\ UNCHANGED <<revision, options, nodeEnv>>

Next ==
    \/ \E i \in ReqIds : Invoke(i)
    \/ \E i \in ReqIds : InvokeBasic(i)
    \/ \E i \in ReqIds : TimerFires(i)

Spec == Init /\ [][Next]_vars

\* The options of the liveness check: one value for each way the handler
\* can treat an option (the falsy duplicates of Spec are left out; they
\* change no transition).
LiveOptions ==
    [latency : LatencyOptions,
     errorRate : {Num(0), Num(1), Num(RandDen)},
     error : {NoError, ChaosError(Num(401), Obj("expired"))},
     methods : {NoMethods, Methods(<< <<"p","u","t">>, <<"G","e","t">> >>)},
     activationKeyword : {Undefined, Str("chaos")}]

InitLive ==
    /\ Init
    /\ options \in LiveOptions \cup BasicOptions

\* every started timer fires (setTimeout)
FairSpec ==
    /\ InitLive /\ [][Next]_vars
    /\ \A i \in ReqIds : WF_vars(TimerFires(i))

\* ============================================================ properties
\* The vocabulary of the statements below is written from the request and
\* the options alone; it does not use the handler's own decision operators.

Invoked(i)   == reqs[i].pc # "idle"
Finished(i)  == reqs[i].pc = "done"
ErrorSent(i) == reqs[i].res # <<>>
Delayed(i)   == reqs[i].timers > 0
InProduction == nodeEnv = Str("production")

\* next() once, the response untouched, no timer
PassedStraight(i) ==
    /\ reqs[i].pc = "done"
    /\ reqs[i].nextCalls = 1
    /\ reqs[i].res = <<>>
    /\ reqs[i].timers = 0

\* the query has the parameter `name` set to the string 'true'
HasTrueParam(i, name) ==
    <<name, Str("true")>> \in reqs[i].arrived.query.props

KeywordConfigured == options.activationKeyword.t = "string"
KeywordNonEmpty   == KeywordConfigured /\ options.activationKeyword.s # ""

LowerOf(c) ==
    CASE c = "G" -> "g" [] c = "E" -> "e" [] c = "T" -> "t"
      [] c = "P" -> "p" [] c = "U" -> "u" [] c = "O" -> "o" [] c = "S" -> "s"
      [] OTHER   -> c

SameIgnoringCase(a, b) ==
    /\ Len(a) = Len(b)
    /\ \A k \in 1..Len(a) : LowerOf(a[k]) = LowerOf(b[k])

MethodsListed == options.methods.t = "array" /\ options.methods.items # <<>>

MethodInList(i) ==
    /\ reqs[i].arrived.method.t = "string"
    /\ \E k \in 1..Len(options.methods.items) :
         SameIgnoringCase(options.methods.items[k], reqs[i].arrived.method.cs)

\* the request is not gated out by the environment, the keyword or the methods
ChaosApplies(i) ==
    /\ ~InProduction
    /\ KeywordNonEmpty => HasTrueParam(i, options.activationKeyword.s)
    /\ MethodsListed => MethodInList(i)

\* the handler on a fresh request, run to its end (the timer, if any, fired)
Handle(rq, r1, r2) ==
    LET q == IF revision = "full"
             THEN chaosMiddleware(options, nodeEnv, Arrive(Idle, rq), r1, r2)
             ELSE chaosMiddlewareBasic(options, nodeEnv, Arrive(Idle, rq), r1, r2)
    IN  IF q.pc = "delaying" THEN Resume(q) ELSE q

Outcome(q) ==
    CASE q.res # <<>> /\ q.timers > 0 -> "both"
      [] q.res # <<>>                 -> "error"
      [] q.timers > 0                 -> "latency"
      [] OTHER                        -> "none"

\* what the handler can do with a request, over all random draws
PossibleOutcomes(rq) ==
    {Outcome(Handle(rq, r1, r2)) : r1 \in Draws, r2 \in Draws}

\* ----------------------------------------------------------------- C1
\* C1: when NODE_ENV is 'production', whatever the configuration and the
\* request, the middleware calls next() exactly once, makes no call on res
\* and starts no delay.
C1_ProductionSafe ==
    \A i \in ReqIds :
        (Invoked(i) /\ InProduction) => PassedStraight(i)

\* a request handled in production under errorRate 1 and a latency
C1_Witness ==
    \E i \in ReqIds :
        /\ Invoked(i) /\ InProduction
        /\ options.errorRate = Num(RandDen)
        /\ options.latency = FixedLatency(MaxMs)

C3_MethodFilter ==
    \A i \in ReqIds :
        /\ (Invoked(i) /\ MethodsListed /\ ~MethodInList(i)) => PassedStraight(i)
        /\ (Invoked(i) /\ ChaosApplies(i)) => reqs[i].draw # -1

\* a lower-case 'get' let through by the list ['put', 'Get'], and a POST
\* filtered out by it
C3_Witness ==
    \E i, j \in ReqIds :
        /\ Invoked(i) /\ Invoked(j) /\ MethodsListed /\ ~InProduction
        /\ reqs[i].arrived.method = Method(<<"g","e","t">>)
        /\ reqs[i].draw # -1
        /\ reqs[j].arrived.method = Method(<<"P","O","S","T">>)
        /\ HasTrueParam(j, "chaos")
        /\ PassedStraight(j)

\* ----------------------------------------------------------------- C4
\* the numerator of the configured errorRate, 0 when it is omitted
ErrorRateNum ==
    IF options.errorRate.t = "undefined" THEN 0 ELSE options.errorRate.n

\* C4: with errorRate 0 or omitted no error response is ever sent; with
\* errorRate 1 every request to which chaos applies gets the error response
\* and next() is never called; in general the error is injected exactly when
\* the draw is strictly below errorRate.
C4_ErrorRate ==
    \A i \in ReqIds : Invoked(i) =>
        /\ ErrorRateNum = 0 => ~ErrorSent(i)
        /\ (ErrorRateNum = RandDen /\ ChaosApplies(i))
           => (ErrorSent(i) /\ reqs[i].nextCalls = 0)
        /\ ChaosApplies(i) => (ErrorSent(i) <=> reqs[i].draw < ErrorRateNum)
        /\ ~ChaosApplies(i) => ~ErrorSent(i)

\* errorRate 1/RandDen: one request drew exactly errorRate and got no error,
\* another drew below it and got the error
C4_Witness ==
    \E i, j \in ReqIds :
        /\ options.errorRate = Num(1)
        /\ Invoked(i) /\ reqs[i].draw = 1 /\ ~ErrorSent(i)
        /\ Invoked(j) /\ reqs[j].draw = 0 /\ ErrorSent(j)

\* ----------------------------------------------------------------- C5
ConfiguredStatus == options.error.status
StatusCall(i)    == reqs[i].res[1]
BodyCall(i)      == reqs[i].res[2]

ErrorShape(i) ==
    /\ Len(reqs[i].res) = 2
    /\ StatusCall(i).op = "status"
    /\ IF options.error.body.t = "object"
       THEN BodyCall(i) = [op |-> "json", arg |-> options.error.body]
       ELSE BodyCall(i) = [op |-> "end", arg |-> Undefined]

C6_LatencyAmount ==
    \A i \in ReqIds :
        /\ Delayed(i) =>
             /\ options.latency.t = "number" => reqs[i].delayMs = options.latency.ms
             /\ options.latency.t = "array" =>
                  /\ reqs[i].delayMs >= options.latency.min
                  /\ reqs[i].delayMs <= options.latency.max
        /\ options.latency.t = "undefined" => ~Delayed(i)

\* under [min, max] with min < max, one request delayed by min and another
\* by max
C6_Witness ==
    \E i, j \in ReqIds :
        /\ options.latency.t = "array" /\ options.latency.min < options.latency.max
        /\ Delayed(i) /\ reqs[i].delayMs = options.latency.min
        /\ Delayed(j) /\ reqs[j].delayMs = options.latency.max

\* ----------------------------------------------------------------- C7
\* C7 (as claimed): for a request to which chaos applies, with errorRate > 0
\* and a latency configured, the handler can inject an error only, latency
\* only, or both on the same request.  (Read in the claim's favour: errorRate
\* strictly between 0 and 1 and a non-zero latency, so that the error and the
\* latency can each happen.)
C7_AsClaimed ==
    \A i \in ReqIds :
        (Invoked(i) /\ ChaosApplies(i) /\ ErrorRateNum > 0 /\ ErrorRateNum < RandDen
           /\ options.latency.t # "undefined"
           /\ options.latency # FixedLatency(0))
        => {"error", "latency", "both"} \subseteq PossibleOutcomes(reqs[i].arrived)

\* C7 (amended): no request gets both a delay and an error response; with
\* 0 < errorRate < 1 and a non-zero latency, a request to which chaos
\* applies gets an error only or latency only, and each of the two can
\* happen.
C7_ErrorOrLatency ==
    \A i \in ReqIds : Invoked(i) =>
        /\ ~(ErrorSent(i) /\ Delayed(i))
        /\ (ChaosApplies(i) /\ ErrorRateNum > 0 /\ ErrorRateNum < RandDen
              /\ options.latency.t # "undefined"
              /\ options.latency # FixedLatency(0))
           => /\ Outcome(reqs[i]) \in {"error", "latency"}
              /\ PossibleOutcomes(reqs[i].arrived) = {"error", "latency"}

\* under 0 < errorRate < 1 and a latency, one request got the error and no
\* delay, another the delay and no error
C7_Witness ==
    \E i, j \in ReqIds :
        /\ options.errorRate = Num(1) /\ options.latency = FixedLatency(MaxMs)
        /\ ErrorSent(i) /\ ~Delayed(i)
        /\ Delayed(j) /\ ~ErrorSent(j) /\ Finished(j)

\* ----------------------------------------------------------------- C8
\* C8: when no error is injected the middleware makes no call on res, leaves
\* the request as it arrived and calls next() exactly once (never more; once
\* the handler has finished, exactly once).
C8_PassThrough ==
    \A i \in ReqIds : (Invoked(i) /\ (~ChaosApplies(i) \/ reqs[i].draw >= ErrorRateNum)) =>
        /\ reqs[i].res = <<>>
        /\ reqs[i].req = reqs[i].arrived
        /\ reqs[i].nextCalls <= 1
        /\ Finished(i) => reqs[i].nextCalls = 1

\* a request filtered out by methods and one that was delayed, both handed
\* to next()
C8_Witness ==
    \E i, j \in ReqIds :
        /\ MethodsListed /\ ~InProduction
        /\ HasTrueParam(i, "chaos") /\ ~MethodInList(i) /\ PassedStraight(i)
        /\ Delayed(j) /\ Finished(j) /\ reqs[j].nextCalls = 1

\* ----------------------------------------------------------------- C9
\* C9: next() is not called before or while the delay timer is pending, only
\* after it has fired; and a request starts at most one timer.
C9_DelayBeforeNext ==
    \A i \in ReqIds :
        /\ reqs[i].timers <= 1
        /\ reqs[i].pc = "delaying" => (reqs[i].nextCalls = 0 /\ reqs[i].fired = 0)
        /\ (Delayed(i) /\ reqs[i].nextCalls > 0) => reqs[i].fired = reqs[i].timers

\* a timer is pending on one request while another, delayed earlier, has
\* been handed to next()
C9_Witness ==
    \E i, j \in ReqIds :
        /\ reqs[i].pc = "delaying"
        /\ Delayed(j) /\ reqs[j].fired = 1 /\ reqs[j].nextCalls = 1

\* ---------------------------------------------------------------- C10
Terminal(i) ==
    /\ Finished(i)
    /\ \/ ErrorSent(i) /\ reqs[i].nextCalls = 0
             /\ Len(SelectSeq(reqs[i].res, LAMBDA c : c.op \in {"json", "end"})) = 1
       \/ ~ErrorSent(i) /\ reqs[i].nextCalls = 1

\* C10: every invocation ends, once its timer has fired, in exactly one of:
\* the error response sent once and next() never called, or next() called
\* once and no response sent; never both and never neither, also when
\* requests interleave.
C10_OneOutcome ==
    /\ \A i \in ReqIds : Invoked(i) ~> Terminal(i)
    /\ [](\A i \in ReqIds : /\ ~(ErrorSent(i) /\ reqs[i].nextCalls > 0)
                            /\ reqs[i].nextCalls <= 1
                            /\ Finished(i) => Terminal(i))
    /\ [][\A i \in ReqIds : Terminal(i) => (reqs'[i] = reqs[i])]_vars

\* the second request has got its error response while the first, which
\* arrived before it, is still waiting for its timer
C10_Witness ==
    /\ reqs[1].pc = "delaying"
    /\ Terminal(2) /\ ErrorSent(2)
====
